---- MODULE Spec2Model ----
(***************************************************************************)
(* Model of server.js: the Discord OAuth exchange relay and the in-memory  *)
(* application store with its webhook notification.                        *)
(*                                                                         *)
(* Node runs every handler on one thread: a handler runs without           *)
(* interruption up to its next `await` of an outbound call, so each action *)
(* below is one such uninterrupted piece of a handler.  Objects are        *)
(* references: the parsed request body of a submission is the very object  *)
(* the Map stores, the object the handler's closure keeps while it awaits  *)
(* the webhook, and the object PATCH mutates in place.  `heap` maps an     *)
(* object reference (the number of the request whose body it is) to the    *)
(* object's current fields.  res.json serialises the object at the moment  *)
(* it is called, so a response body is a copy taken then.                  *)
(***************************************************************************)
EXTENDS Integers, Sequences, FiniteSets, TLC

MaxRequests == 3   \* requests the server receives in one run

VARIABLES
    applications,  \* the Map: sequence (insertion order) of [key, ref]
    heap,          \* object reference -> the object's fields
    requests,      \* every request received, in order of arrival
    responses,     \* the response sent to each request (NoResponse while pending)
    pc,            \* where each request's handler is: an await point or "done"
    outbound,      \* every outbound axios call issued, with its state
    logs,          \* console.error calls: [req, msg]
    clock          \* what new Date() read last

vars == <<applications, heap, requests, responses, pc, outbound, logs, clock>>

----------------------------------------------------------------------------
(* JavaScript values *)

\* The value of a property that is not there, or is undefined; JSON leaves
\* such a property out of a serialised body.
Undefined == "<undefined>"

\* A test that takes the empty string for a value.
FalsyOnlyUndefined(v) == v = Undefined

\* !v
Falsy(v) == v \in {Undefined, ""}

\* new Date().toISOString()
toISOString(t) == ToString(t)

----------------------------------------------------------------------------
(* The Map `applications` *)

NoRef == 0   \* what Map.get returns for a key that is not there (undefined)

MapKeys(m) == {m[i].key : i \in 1..Len(m)}

MapGet(m, k) ==
    IF k \in MapKeys(m)
    THEN m[CHOOSE i \in 1..Len(m) : m[i].key = k].ref
    ELSE NoRef

\* A mis-written set that always adds an entry.
MapSetAppends(m, k, ref) == Append(m, [key |-> k, ref |-> ref])

\* Map.set: an existing key keeps its position and takes the new value.
MapSet(m, k, ref) ==
    IF k \in MapKeys(m)
    THEN [i \in 1..Len(m) |-> IF m[i].key = k THEN [key |-> k, ref |-> ref] ELSE m[i]]
    ELSE Append(m, [key |-> k, ref |-> ref])

\* Array.from(applications.values()), each object as it is now
MapValues(m, hp) == [i \in 1..Len(m) |-> hp[m[i].ref]]

----------------------------------------------------------------------------
(* Inputs *)

Ids == {"a", "b"}
UserIds == {"u1", "u2"}

\* A request body of POST /api/applications.  fullName stands for the fields
\* the server only copies (fullName, position, experience, email,
\* licenseNumber, userAvatar).
Application(id, userId, webhookUrl, motivation, experienceDetail, status, reviewedBy) ==
    [id |-> id, userId |-> userId, fullName |-> "n",
     motivation |-> motivation, experienceDetail |-> experienceDetail,
     webhookUrl |-> webhookUrl,
     status |-> status, reviewedAt |-> Undefined, reviewedBy |-> reviewedBy]

Bodies ==
    \* no usable id, with a webhookUrl
    { Application(i, "u1", "hook", "m", "d", Undefined, Undefined) : i \in {Undefined, ""} }
    \* plain submissions, no webhook
    \cup { Application(i, u, Undefined, "m", "d", Undefined, Undefined) : i \in Ids, u \in UserIds }
    \* submissions with a webhook
    \cup { Application(i, "u1", "hook", "m", "d", Undefined, Undefined) : i \in Ids }
    \* submissions with a webhook whose embed cannot be built
    \cup { Application("a", "u1", "hook", Undefined, "d", Undefined, Undefined),
           Application("b", "u2", "hook", "m", Undefined, Undefined, Undefined) }
    \* submissions that carry review fields of their own
    \cup { Application(i, "u2", Undefined, "m", "d", "accepted", "self") : i \in Ids }

\* The body of PATCH /api/applications/:id
Patches ==
    { [status |-> "accepted", reviewedBy |-> "admin"],
      [status |-> "denied", reviewedBy |-> "mod"],
      [status |-> Undefined, reviewedBy |-> Undefined] }

----------------------------------------------------------------------------
(* Requests and responses *)

Request(route, param, body, now) ==
    [route |-> route, param |-> param, body |-> body, at |-> now]

Response(status, body) == [status |-> status, body |-> body]

NoResponse == Response(0, <<>>)

\* The handler of a new request: r is its number.
Receive(request) ==
    /\ Len(requests) < MaxRequests
    /\ requests' = Append(requests, request)

\* res.status(code).json(body) in the piece of the handler that received r
Reply(status, body) ==
    /\ responses' = Append(responses, Response(status, body))
    /\ pc' = Append(pc, "done")

\* the handler of a new request stops at an await
Await(at) ==
    /\ responses' = Append(responses, NoResponse)
    /\ pc' = Append(pc, at)

\* res.status(code).json(body) after an await
ReplyLater(r, status, body) ==
    /\ responses' = [responses EXCEPT ![r] = Response(status, body)]
    /\ pc' = [pc EXCEPT ![r] = "done"]

\* axios.post / axios.get issued by request r
Call(r, url) == outbound' = Append(outbound, [req |-> r, url |-> url, state |-> "pending"])

\* the outbound call request r awaits
Awaited(r) == CHOOSE c \in 1..Len(outbound) : outbound[c].req = r /\ outbound[c].state = "pending"

Settle(r, state) == outbound' = [outbound EXCEPT ![Awaited(r)].state = state]

ConsoleError(r, msg) == logs' = Append(logs, [req |-> r, msg |-> msg])

----------------------------------------------------------------------------
(* GET /api/applications, GET /api/applications/:userId *)

GetApplications ==
    /\ Receive(Request("GET /api/applications", Undefined, <<>>, clock))
    /\ Reply(200, [applications |-> MapValues(applications, heap)])
    /\ UNCHANGED <<applications, heap, outbound, logs, clock>>

OwnedBy(userId, app) == app.userId = userId

GetUserApplications(userId) ==
    /\ Receive(Request("GET /api/applications/:userId", userId, <<>>, clock))
    /\ Reply(200, [applications |->
            SelectSeq(MapValues(applications, heap), LAMBDA app : OwnedBy(userId, app))])
    /\ UNCHANGED <<applications, heap, outbound, logs, clock>>

----------------------------------------------------------------------------
(* POST /api/applications *)

\* application.motivation.substring / application.experienceDetail.substring
\* throw a TypeError when the property is undefined.
EmbedThrows(application) ==
    \/ application.motivation = Undefined
    \/ application.experienceDetail = Undefined

Saved(application) == [success |-> TRUE, application |-> application]

SubmitApplication(body) ==
    LET r == Len(requests) + 1 IN
    /\ Receive(Request("POST /api/applications", Undefined, body, clock))
    /\ heap' = heap @@ (r :> body)            \* const application = req.body
    /\ IF Falsy(body.id)
       THEN /\ Reply(400, [error |-> "Application ID is required"])
            /\ UNCHANGED <<applications, outbound, logs>>
       ELSE /\ applications' = MapSet(applications, body.id, r)
            /\ IF Falsy(body.webhookUrl)
               THEN /\ Reply(200, Saved(body))
                    /\ UNCHANGED <<outbound, logs>>
               ELSE IF EmbedThrows(body)
               THEN \* building the embed throws inside the inner try
                    /\ ConsoleError(r, "Webhook failed:")
                    /\ Reply(200, Saved(body))
                    /\ UNCHANGED outbound
               ELSE /\ Call(r, body.webhookUrl)
                    /\ Await("webhook")
                    /\ UNCHANGED logs
    /\ UNCHANGED clock

\* await axios.post(application.webhookUrl, ...) returns
WebhookResolved(r) ==
    /\ pc[r] = "webhook"
    /\ Settle(r, "ok")
    /\ ReplyLater(r, 200, Saved(heap[r]))
    /\ UNCHANGED <<applications, heap, requests, logs, clock>>

\* A catch clause that reports the webhook's failure to the submitter.
WebhookRejectedFails(r) ==
    /\ pc[r] = "webhook"
    /\ Settle(r, "failed")
    /\ ConsoleError(r, "Webhook failed:")
    /\ ReplyLater(r, 500, [error |-> "Failed to save application"])
    /\ UNCHANGED <<applications, heap, requests, clock>>

\* await axios.post(application.webhookUrl, ...) throws: catch (webhookError)
WebhookRejected(r) ==
    /\ pc[r] = "webhook"
    /\ Settle(r, "failed")
    /\ ConsoleError(r, "Webhook failed:")
    /\ ReplyLater(r, 200, Saved(heap[r]))
    /\ UNCHANGED <<applications, heap, requests, clock>>

----------------------------------------------------------------------------
(* PATCH /api/applications/:id *)

\* An update that forgets the timestamp.
ReviewedNoTimestamp(application, status, now, reviewedBy) ==
    [application EXCEPT !.status = status, !.reviewedBy = reviewedBy]

\* An update that also clears the webhook address.
ReviewedClearsWebhook(application, status, now, reviewedBy) ==
    [application EXCEPT !.status = status, !.reviewedAt = toISOString(now),
                        !.reviewedBy = reviewedBy, !.webhookUrl = Undefined]

\* application.status = status; application.reviewedAt = ...; application.reviewedBy = reviewedBy
Reviewed(application, status, now, reviewedBy) ==
    [application EXCEPT !.status = status, !.reviewedAt = toISOString(now),
                        !.reviewedBy = reviewedBy]

\* A handler that creates the record it did not find.
PatchCreates(id, patch, now) ==
    LET r == Len(requests) + 1
        created == Reviewed(Application(id, Undefined, Undefined, Undefined, Undefined,
                                        Undefined, Undefined),
                            patch.status, now, patch.reviewedBy)
    IN
    /\ heap' = heap @@ (r :> created)
    /\ applications' = MapSet(applications, id, r)
    /\ Reply(200, Saved(created))

\* if (!application) return res.status(404)...
PatchNotFound(id, patch, now) ==
    /\ Reply(404, [error |-> "Application not found"])
    /\ UNCHANGED <<applications, heap>>

PatchFound(id, patch, now) ==
    LET application == MapGet(applications, id) IN
    /\ heap' = [heap EXCEPT ![application] = Reviewed(@, patch.status, now, patch.reviewedBy)]
    /\ applications' = MapSet(applications, id, application)
    /\ Reply(200, Saved(heap'[application]))

\* now is what new Date() reads in this handler: the clock's last reading, or
\* a later one.
PatchApplication(id, patch, now) ==
    /\ Receive(Request("PATCH /api/applications/:id", id, patch, now))
    /\ IF MapGet(applications, id) = NoRef
       THEN PatchNotFound(id, patch, now)
       ELSE PatchFound(id, patch, now)
    /\ clock' = now
    /\ UNCHANGED <<outbound, logs>>

----------------------------------------------------------------------------
(* What axios throws *)

\* A rejected call's error: error.message, and under error_description what
\* error.response?.data?.error_description reads (Undefined without a
\* response, without data or without the property).
AxiosErrors ==
    { [message |-> "Request failed with status code 400",
       error_description |-> "Invalid \"code\" in request."],
      [message |-> "Request failed with status code 401",
       error_description |-> Undefined] }

\* The TypeError of reading a property of null or undefined: it has no
\* response.
TypeError(message) == [message |-> message, error_description |-> Undefined]

----------------------------------------------------------------------------
(* GET / *)

GetHealth ==
    /\ Receive(Request("GET /", Undefined, <<>>, clock))
    /\ Reply(200, [status |-> "Emirates Careers OAuth Server Running", version |-> "1.0.0"])
    /\ UNCHANGED <<applications, heap, outbound, logs, clock>>

----------------------------------------------------------------------------
(* POST /api/webhook/application (deprecated) *)

\* Request bodies: a property that is absent is a field the record lacks.
WebhookBodies ==
    { [webhookUrl |-> "hook2"],
      [application |-> Application("a", "u1", Undefined, "m", "d", Undefined, Undefined),
       webhookUrl |-> Undefined],
      [application |-> Application("a", "u1", Undefined, "m", "d", Undefined, Undefined),
       webhookUrl |-> "hook2"],
      [application |-> Application("b", "u2", Undefined, Undefined, "d", Undefined, Undefined),
       webhookUrl |-> "hook2"] }

\* if (!application || !webhookUrl)
MissingWebhookFields(body) ==
    \/ "application" \notin DOMAIN body
    \/ Falsy(body.webhookUrl)

WebhookError(error) == [error |-> "Failed to send webhook", details |-> error.message]

PostWebhookApplication(body) ==
    LET r == Len(requests) + 1 IN
    /\ Receive(Request("POST /api/webhook/application", Undefined, body, clock))
    /\ IF MissingWebhookFields(body)
       THEN /\ Reply(400, [error |-> "Application data and webhook URL required"])
            /\ UNCHANGED <<outbound, logs>>
       ELSE IF EmbedThrows(body.application)
       THEN \* building the embed throws inside the try
            /\ ConsoleError(r, "Webhook Error:")
            /\ Reply(500, WebhookError(TypeError("Cannot read properties of undefined (reading 'substring')")))
            /\ UNCHANGED outbound
       ELSE /\ Call(r, body.webhookUrl)
            /\ Await("notify")
            /\ UNCHANGED logs
    /\ UNCHANGED <<applications, heap, clock>>

\* await axios.post(webhookUrl, ...) returns
NotifyResolved(r) ==
    /\ pc[r] = "notify"
    /\ Settle(r, "ok")
    /\ ReplyLater(r, 200, [success |-> TRUE, message |-> "Application sent to Discord"])
    /\ UNCHANGED <<applications, heap, requests, logs, clock>>

\* await axios.post(webhookUrl, ...) throws: catch (error)
NotifyRejected(r, error) ==
    /\ pc[r] = "notify"
    /\ Settle(r, "failed")
    /\ ConsoleError(r, "Webhook Error:")
    /\ ReplyLater(r, 500, WebhookError(error))
    /\ UNCHANGED <<applications, heap, requests, clock>>

----------------------------------------------------------------------------
(* POST /api/auth/discord *)

Codes == {Undefined, "", "c1"}

\* What the token endpoint answers with a 2xx.  A response without the field
\* data is one whose body is null.
TokenResponses ==
    { [status |-> 200, data |-> [access_token |-> "tok"]],
      [status |-> 200] }

\* A string that parseInt reads is the sequence of its UTF-16 code units.
\* "-7" is <<45, 55>>.
\* What the user endpoint answers with a 2xx.  A response without the field
\* data is one whose body is null.
UserResponses ==
    { \* "0007", with an avatar
      [status |-> 200,
       data |-> [id |-> "7", username |-> "x", discriminator |-> <<48, 48, 48, 55>>,
                 avatar |-> "h", email |-> "x@y"]],
      \* "", with an empty avatar
      [status |-> 200,
       data |-> [id |-> "6", username |-> "v", discriminator |-> <<>>,
                 avatar |-> "", email |-> "v@y"]],
      \* "\v-7ab"
      [status |-> 200,
       data |-> [id |-> "5", username |-> "q", discriminator |-> <<11, 45, 55, 97, 98>>,
                 avatar |-> Undefined, email |-> "q@y"]],
      \* "0x10"
      [status |-> 200,
       data |-> [id |-> "4", username |-> "p", discriminator |-> <<48, 120, 49, 48>>,
                 avatar |-> Undefined, email |-> "p@y"]],
      \* "99999999999999999"
      [status |-> 200,
       data |-> [id |-> "3", username |-> "w",
                 discriminator |-> <<57, 57, 57, 57, 57, 57, 57, 57, 57,
                                     57, 57, 57, 57, 57, 57, 57, 57>>,
                 avatar |-> Undefined, email |-> "w@y"]],
      [status |-> 200] }

\* A JavaScript number that parseInt and % can give: NaN, an infinity, or an
\* integer mantissa * 2^exponent with its sign (there is a -0).
NaN == [kind |-> "NaN", negative |-> FALSE, mantissa |-> <<>>, exponent |-> 0]
Infinity(negative) ==
    [kind |-> "Infinity", negative |-> negative, mantissa |-> <<>>, exponent |-> 0]
Integer(negative, mantissa, exponent) ==
    [kind |-> "integer", negative |-> negative, mantissa |-> mantissa, exponent |-> exponent]

\* 2^e modulo m
RECURSIVE PowerOfTwoMod(_, _)
PowerOfTwoMod(e, m) ==
    IF e = 0 THEN 1 % m
    ELSE LET half == PowerOfTwoMod(e \div 2, m) IN
         (half * half * (IF e % 2 = 1 THEN 2 ELSE 1)) % m

\* The integer parseInt reads has no bound: an integer is kept as digits of
\* 15 bits each (limbs), lowest first, none for zero.
LimbBits == 15
LimbBase == 2 ^ LimbBits

\* the limbs of a natural number
RECURSIVE ToLimbs(_)
ToLimbs(n) == IF n = 0 THEN <<>> ELSE <<n % LimbBase>> \o ToLimbs(n \div LimbBase)

\* the sequence without the zeros at its high end
Strip(limbs) ==
    LET top == CHOOSE t \in 0..Len(limbs) :
                  /\ t > 0 => limbs[t] # 0
                  /\ \A k \in (t + 1)..Len(limbs) : limbs[k] = 0
    IN SubSeq(limbs, 1, top)

\* The integer of a sequence of sums, one for each limb and each below
\* 2 * LimbBase - 1: a limb takes a carry of 1 when a limb below it
\* overflows and every limb between the two is full.
Ripple(sums) ==
    LET carry(i) == \E j \in 1..(i - 1) :
                       /\ sums[j] >= LimbBase
                       /\ \A k \in (j + 1)..(i - 1) : sums[k] = LimbBase - 1
    IN
    Strip([i \in 1..(Len(sums) + 1) |->
              ((IF i <= Len(sums) THEN sums[i] ELSE 0)
                 + (IF carry(i) THEN 1 ELSE 0)) % LimbBase])

\* limbs * m + c, for m up to 4096 and c below m
MulAdd(limbs, m, c) ==
    Ripple([i \in 1..(Len(limbs) + 1) |->
               (IF i <= Len(limbs) THEN (limbs[i] * m) % LimbBase ELSE 0)
                 + (IF i > 1 THEN (limbs[i - 1] * m) \div LimbBase ELSE c)])

\* a + b
Add(a, b) ==
    Ripple([i \in 1..(IF Len(a) > Len(b) THEN Len(a) ELSE Len(b)) |->
               (IF i <= Len(a) THEN a[i] ELSE 0) + (IF i <= Len(b) THEN b[i] ELSE 0)])

\* limbs * radix^k
RECURSIVE MulPow(_, _, _)
MulPow(limbs, radix, k) ==
    IF limbs = <<>> THEN <<>>
    ELSE IF k <= 3 THEN MulAdd(limbs, radix ^ k, 0)
    ELSE MulPow(MulPow(limbs, radix, k \div 2), radix, k - (k \div 2))

\* the integer modulo m
RECURSIVE LimbsMod(_, _)
LimbsMod(limbs, m) ==
    IF limbs = <<>> THEN 0
    ELSE (limbs[1] + LimbBase * LimbsMod(Tail(limbs), m)) % m

\* the integer of at most two limbs
RECURSIVE LimbsValue(_)
LimbsValue(limbs) ==
    IF limbs = <<>> THEN 0 ELSE limbs[1] + LimbBase * LimbsValue(Tail(limbs))

\* the number of binary digits of the integer
BitLength(limbs) ==
    IF limbs = <<>> THEN 0
    ELSE LimbBits * (Len(limbs) - 1)
           + (CHOOSE n \in 1..LimbBits :
                 2 ^ (n - 1) <= limbs[Len(limbs)] /\ limbs[Len(limbs)] < 2 ^ n)

\* its k-th binary digit, the lowest being the first
Bit(limbs, k) ==
    (limbs[((k - 1) \div LimbBits) + 1] \div (2 ^ ((k - 1) % LimbBits))) % 2

\* the integer without its s lowest binary digits
ShiftRight(limbs, s) ==
    LET q == s \div LimbBits
        r == s % LimbBits
        at(i) == IF i <= Len(limbs) THEN limbs[i] ELSE 0
    IN
    Strip([i \in 1..(Len(limbs) - q) |->
              (at(i + q) \div (2 ^ r)) + (at(i + q + 1) % (2 ^ r)) * (2 ^ (LimbBits - r))])

\* The number (a double) nearest to an integer: 53 binary digits are kept,
\* the rest rounds to nearest, ties to even; beyond 1024 digits it is an
\* infinity.
ToDouble(negative, limbs) ==
    LET len == BitLength(limbs)
        dropped == len - 53
        high == ShiftRight(limbs, dropped)
        sticky == \E k \in 1..(dropped - 1) : Bit(limbs, k) = 1
        up == Bit(limbs, dropped) = 1 /\ (sticky \/ high[1] % 2 = 1)
        rounded == IF up THEN Add(high, <<1>>) ELSE high
    IN
    IF len <= 53 THEN Integer(negative, limbs, 0)
    ELSE IF dropped + BitLength(rounded) > 1024 THEN Infinity(negative)
    ELSE Integer(negative, rounded, dropped)

\* The value of a code unit as a digit: 0-9, a-z or A-Z; 36 when it is none.
DigitValue(c) ==
    IF c \in 48..57 THEN c - 48
    ELSE IF c \in 97..122 THEN c - 97 + 10
    ELSE IF c \in 65..90 THEN c - 65 + 10
    ELSE 36

IsDigit(c, radix) == DigitValue(c) < radix

\* The code units parseInt skips in front: white space (tab, vertical tab,
\* form feed, space, no-break space, the space separators, the byte order
\* mark) and line terminators.
WhiteSpace ==
    {9, 10, 11, 12, 13, 32, 160, 5760} \cup (8192..8202)
    \cup {8232, 8233, 8239, 8287, 12288, 65279}

\* the string without the white space in front
SkipWhiteSpace(chars) ==
    LET first == CHOOSE n \in 1..(Len(chars) + 1) :
                    /\ \A k \in 1..(n - 1) : chars[k] \in WhiteSpace
                    /\ n <= Len(chars) => chars[n] \notin WhiteSpace
    IN SubSeq(chars, first, Len(chars))

\* + or - in front
HasSign(chars) == chars # <<>> /\ Head(chars) \in {43, 45}

\* a 0x or 0X in front: the rest is read in radix 16
HasHexPrefix(chars) == Len(chars) >= 2 /\ chars[1] = 48 /\ chars[2] \in {120, 88}

\* the digits a string starts with
LeadingDigits(chars, radix) ==
    LET count == CHOOSE n \in 0..Len(chars) :
                    /\ n < Len(chars) => ~IsDigit(chars[n + 1], radix)
                    /\ \A k \in 1..n : IsDigit(chars[k], radix)
    IN SubSeq(chars, 1, count)

\* the integer that the digits from lo to hi write, for at most 7 digits
RECURSIVE SmallValue(_, _, _, _)
SmallValue(digits, lo, hi, radix) ==
    IF lo > hi THEN 0
    ELSE SmallValue(digits, lo, hi - 1, radix) * radix + DigitValue(digits[hi])

\* the integer that the digits from lo to hi write
RECURSIVE DigitsValue(_, _, _, _)
DigitsValue(digits, lo, hi, radix) ==
    IF hi - lo < 7 THEN ToLimbs(SmallValue(digits, lo, hi, radix))
    ELSE LET mid == (lo + hi) \div 2 IN
         Add(MulPow(DigitsValue(digits, lo, mid, radix), radix, hi - mid),
             DigitsValue(digits, mid + 1, hi, radix))

\* the digits without the zeros in front
SkipZeros(digits) ==
    LET first == CHOOSE n \in 1..(Len(digits) + 1) :
                    /\ \A k \in 1..(n - 1) : digits[k] = 48
                    /\ n <= Len(digits) => digits[n] # 48
    IN SubSeq(digits, first, Len(digits))

\* parseInt(string), no radix given: skip white space, read a sign, read a
\* 0x prefix, then the digits of the radix up to the first other code unit;
\* NaN when there is no digit, else the number nearest to the integer read.
\* An integer of more than 309 decimal or 256 hexadecimal digits is 2^1024
\* or more: an infinity.
parseInt(chars) ==
    LET trimmed == SkipWhiteSpace(chars)
        negative == HasSign(trimmed) /\ Head(trimmed) = 45
        unsigned == IF HasSign(trimmed) THEN Tail(trimmed) ELSE trimmed
        radix == IF HasHexPrefix(unsigned) THEN 16 ELSE 10
        body == IF HasHexPrefix(unsigned) THEN Tail(Tail(unsigned)) ELSE unsigned
        digits == LeadingDigits(body, radix)
        significant == SkipZeros(digits)
    IN
    IF digits = <<>> THEN NaN
    ELSE IF Len(significant) > (IF radix = 16 THEN 256 ELSE 309) THEN Infinity(negative)
    ELSE ToDouble(negative, DigitsValue(significant, 1, Len(significant), radix))

\* x % m for an integer m below 2^15: the result has the sign of x; NaN for
\* a NaN or infinite x or a zero m
Remainder(x, m) ==
    LET d == IF m < 0 THEN 0 - m ELSE m IN
    IF x.kind # "integer" \/ m = 0 THEN NaN
    ELSE Integer(x.negative,
                 ToLimbs((LimbsMod(x.mantissa, d) * PowerOfTwoMod(x.exponent, d)) % d), 0)

\* A number inside a template string.  The program prints the result of
\* % 5 only: an integer of few digits, exponent 0.
NumberToString(x) ==
    IF x.kind = "NaN" THEN "NaN"
    ELSE IF x.kind = "Infinity" THEN (IF x.negative THEN "-Infinity" ELSE "Infinity")
    ELSE IF x.negative THEN ToString(0 - LimbsValue(x.mantissa))
    ELSE ToString(LimbsValue(x.mantissa))

\* parseInt(user.discriminator) % 5 inside the template string
AvatarIndex(discriminator) == NumberToString(Remainder(parseInt(discriminator), 5))

\* AvatarIndex of the discriminators that UserResponses holds: a constant,
\* evaluated once
AvatarIndexes ==
    [discriminator \in {userResponse.data.discriminator :
                           userResponse \in {x \in UserResponses : "data" \in DOMAIN x}}
        |-> AvatarIndex(discriminator)]

AvatarUrl(user) ==
    IF ~Falsy(user.avatar)
    THEN [path |-> "avatars", id |-> user.id, hash |-> user.avatar]
    ELSE [path |-> "embed/avatars",
          index |-> IF user.discriminator \in DOMAIN AvatarIndexes
                    THEN AvatarIndexes[user.discriminator]
                    ELSE AvatarIndex(user.discriminator)]

Profile(user) ==
    [id |-> user.id, username |-> user.username, discriminator |-> user.discriminator,
     avatar |-> AvatarUrl(user), email |-> user.email]

\* details: error.response?.data?.error_description || error.message
AuthFailed(error) ==
    [error |-> "Failed to authenticate with Discord",
     details |-> IF ~Falsy(error.error_description)
                 THEN error.error_description
                 ELSE error.message]

\* catch (error) of the exchange
AuthCatch(r, error) ==
    /\ ConsoleError(r, "Discord OAuth Error:")
    /\ ReplyLater(r, 500, AuthFailed(error))

\* A validation that only rejects a code that is not there.
MissingCodeOnlyUndefined(code) == code = Undefined

\* if (!code)
MissingCode(code) == Falsy(code)

PostAuthDiscord(code) ==
    LET r == Len(requests) + 1 IN
    /\ Receive(Request("POST /api/auth/discord", Undefined, [code |-> code], clock))
    /\ IF MissingCode(code)
       THEN /\ Reply(400, [error |-> "Authorization code is required"])
            /\ UNCHANGED outbound
       ELSE /\ Call(r, "oauth2/token")
            /\ Await("token")
    /\ UNCHANGED <<applications, heap, logs, clock>>

\* await axios.post(token endpoint) returns: the handler destructures
\* tokenResponse.data, which throws when it is null, and goes on to axios.get
TokenResolved(r, tokenResponse) ==
    /\ pc[r] = "token"
    /\ IF "data" \notin DOMAIN tokenResponse
       THEN /\ Settle(r, "ok")
            /\ AuthCatch(r, TypeError("Cannot destructure property 'access_token' of 'tokenResponse.data' as it is null."))
       ELSE /\ outbound' = Append([outbound EXCEPT ![Awaited(r)].state = "ok"],
                                  [req |-> r, url |-> "users/@me", state |-> "pending"])
            /\ pc' = [pc EXCEPT ![r] = "user"]
            /\ UNCHANGED <<responses, logs>>
    /\ UNCHANGED <<applications, heap, requests, clock>>

\* await axios.post(token endpoint) throws: catch (error)
TokenRejected(r, error) ==
    /\ pc[r] = "token"
    /\ Settle(r, "failed")
    /\ AuthCatch(r, error)
    /\ UNCHANGED <<applications, heap, requests, clock>>

\* await axios.get(user endpoint) returns: reading user.id throws when
\* userResponse.data is null
UserResolved(r, userResponse) ==
    /\ pc[r] = "user"
    /\ Settle(r, "ok")
    /\ IF "data" \notin DOMAIN userResponse
       THEN AuthCatch(r, TypeError("Cannot read properties of null (reading 'id')"))
       ELSE /\ ReplyLater(r, 200, Profile(userResponse.data))
            /\ UNCHANGED logs
    /\ UNCHANGED <<applications, heap, requests, clock>>

\* await axios.get(user endpoint) throws: catch (error)
UserRejected(r, error) ==
    /\ pc[r] = "user"
    /\ Settle(r, "failed")
    /\ AuthCatch(r, error)
    /\ UNCHANGED <<applications, heap, requests, clock>>

----------------------------------------------------------------------------
(* The application routes, the deprecated webhook route and the health check *)

Init ==
    /\ applications = <<>>
    /\ heap = <<>>
    /\ requests = <<>>
    /\ responses = <<>>
    /\ pc = <<>>
    /\ outbound = <<>>
    /\ logs = <<>>
    /\ clock = 0

Next ==
    \/ \E body \in Bodies : SubmitApplication(body)
    \/ \E r \in 1..Len(requests) : WebhookResolved(r)
    \/ \E r \in 1..Len(requests) : WebhookRejected(r)
    \/ \E id \in Ids, patch \in Patches, now \in {clock, clock + 1} :
            PatchApplication(id, patch, now)
    \/ GetApplications
    \/ \E userId \in UserIds : GetUserApplications(userId)
    \/ \E body \in WebhookBodies : PostWebhookApplication(body)
    \/ \E r \in 1..Len(requests) : NotifyResolved(r)
    \/ \E r \in 1..Len(requests), error \in AxiosErrors : NotifyRejected(r, error)
    \/ GetHealth

Spec == Init /\ [][Next]_vars

----------------------------------------------------------------------------
(* The OAuth exchange relay: it shares no state with the store *)

NextAuth ==
    \/ \E code \in Codes : PostAuthDiscord(code)
    \/ \E r \in 1..Len(requests), tokenResponse \in TokenResponses : TokenResolved(r, tokenResponse)
    \/ \E r \in 1..Len(requests), error \in AxiosErrors : TokenRejected(r, error)
    \/ \E r \in 1..Len(requests), userResponse \in UserResponses : UserResolved(r, userResponse)
    \/ \E r \in 1..Len(requests), error \in AxiosErrors : UserRejected(r, error)

SpecAuth == Init /\ [][NextAuth]_vars

----------------------------------------------------------------------------
(* What the requests and responses so far say *)

Received == 1..Len(requests)

IsSubmit(r) == requests[r].route = "POST /api/applications"
IsPatch(r) == requests[r].route = "PATCH /api/applications/:id"
IsGetAll(r) == requests[r].route = "GET /api/applications"
IsGetUser(r) == requests[r].route = "GET /api/applications/:userId"
IsAuth(r) == requests[r].route = "POST /api/auth/discord"

\* the request the step receives, when it receives one
Arrives(route) ==
    /\ Len(requests') = Len(requests) + 1
    /\ requests'[Len(requests')].route = route

Arrived == requests'[Len(requests')]
Answer == responses'[Len(requests')]

\* a submission with an id the store can key on
HasId(r) == IsSubmit(r) /\ requests[r].body.id \notin {Undefined, ""}

HasWebhook(r) == HasId(r) /\ requests[r].body.webhookUrl \notin {Undefined, ""}

CallsOf(r) == SelectSeq(outbound, LAMBDA c : c.req = r)

SomeCall(r, state) == \E c \in 1..Len(outbound) : outbound[c].req = r /\ outbound[c].state = state

\* a record without the three fields an update sets
Submitted(application) ==
    [application EXCEPT !.status = Undefined, !.reviewedAt = Undefined,
                        !.reviewedBy = Undefined]

SubmittedIds == {requests[r].body.id : r \in {x \in Received : HasId(x)}}

LastSubmission(id) ==
    CHOOSE s \in Received :
        /\ HasId(s) /\ requests[s].body.id = id
        /\ \A x \in Received : HasId(x) /\ requests[x].body.id = id => x <= s

PatchedSince(id, s) ==
    \E p \in Received : p > s /\ IsPatch(p) /\ requests[p].param = id

----------------------------------------------------------------------------
(* C1 *)

\* C1: the response to a submission with an id and a webhookUrl does not
\* wait for the webhook: whenever such a submission has been taken in, its
\* response has been sent, also while its webhook call has had no answer.
C1_ResponseDoesNotAwaitWebhook ==
    \A r \in Received : HasWebhook(r) => responses[r].status # 0

----------------------------------------------------------------------------
(* C2 *)

WebhookFailed(r) ==
    /\ HasWebhook(r)
    /\ \/ SomeCall(r, "failed")
       \/ requests[r].body.motivation = Undefined
       \/ requests[r].body.experienceDetail = Undefined

\* C2: when the webhook of a submission with an id fails, the response is
\* HTTP 200 {success: true, application}, the failure is logged and the call
\* is not made again, and the store still has a record under the id.
C2_WebhookFailureKeepsOutcome ==
    \A r \in Received : WebhookFailed(r) =>
        /\ responses[r].status = 200
        /\ responses[r].body.success = TRUE
        /\ responses[r].body.application.id = requests[r].body.id
        /\ Len(CallsOf(r)) <= 1
        /\ \E l \in 1..Len(logs) : logs[l].req = r
        /\ requests[r].body.id \in MapKeys(applications)

\* a webhook call was made, failed, and the submission was answered
C2_Witness ==
    \E r \in Received : HasWebhook(r) /\ SomeCall(r, "failed") /\ pc[r] = "done"

----------------------------------------------------------------------------
(* C3 *)

\* C3: the store holds one record per submitted id; its submitted fields are
\* those of the last submission of the id, and until it is updated again it
\* is that submission whole, whatever an earlier update had set.
C3_OneRecordPerIdLastWins ==
    LET view == MapValues(applications, heap) IN
    /\ Len(view) = Cardinality(SubmittedIds)
    /\ {view[i].id : i \in 1..Len(view)} = SubmittedIds
    /\ \A i \in 1..Len(view) :
         LET id == view[i].id
             s == LastSubmission(id)
         IN /\ applications[i].key = id
            /\ Submitted(view[i]) = Submitted(requests[s].body)
            /\ ~PatchedSince(id, s) => view[i] = requests[s].body

\* an id was submitted, updated and submitted again
C3_Witness ==
    \E s1, p, s2 \in Received :
        /\ s1 < p /\ p < s2
        /\ HasId(s1) /\ HasId(s2) /\ IsPatch(p)
        /\ requests[s1].body.id = requests[s2].body.id
        /\ requests[p].param = requests[s1].body.id
        /\ requests[p].body.status = "accepted"
        /\ requests[s2].body.status = Undefined
        /\ requests[s2].body # requests[s1].body

----------------------------------------------------------------------------
(* C4 *)

\* C4: an update of an id in the store changes only status, reviewedAt and
\* reviewedBy of that id's record: its other fields and all other records
\* stay as they were.
C4_UpdateChangesOnlyReviewFields ==
    [][ (Arrives("PATCH /api/applications/:id") /\ Arrived.param \in MapKeys(applications))
        => LET before == MapValues(applications, heap)
               after == MapValues(applications', heap')
           IN /\ Len(after) = Len(before)
              /\ \A i \in 1..Len(before) :
                    /\ applications'[i].key = applications[i].key
                    /\ IF applications[i].key = Arrived.param
                       THEN Submitted(after[i]) = Submitted(before[i])
                       ELSE after[i] = before[i]
      ]_vars

\* an update of one of two records, the updated one having a webhookUrl
C4_Witness ==
    \E p \in Received :
        /\ IsPatch(p) /\ responses[p].status = 200
        /\ responses[p].body.application.webhookUrl = "hook"
        /\ responses[p].body.application.status = "denied"
        /\ Len(applications) = 2

----------------------------------------------------------------------------
(* C5 *)

\* C5: an update of an id that is not in the store answers 404 and leaves the
\* store as it was.
C5_UpdateOfUnknownIdIs404 ==
    [][ (Arrives("PATCH /api/applications/:id") /\ Arrived.param \notin MapKeys(applications))
        => /\ Answer.status = 404
           /\ applications' = applications
           /\ MapValues(applications', heap') = MapValues(applications, heap)
      ]_vars

\* an update of an unknown id with another record in the store
C5_Witness ==
    \E p \in Received :
        /\ IsPatch(p) /\ responses[p].status = 404
        /\ Len(applications) = 1
        /\ requests[p].param \notin MapKeys(applications)

----------------------------------------------------------------------------
(* C6 *)

\* C6: a submission without an id, or with an empty one, answers 400,
\* leaves the store as it was and makes no webhook call.
C6_SubmissionWithoutIdIs400 ==
    [][ (Arrives("POST /api/applications") /\ Arrived.body.id \in {Undefined, ""})
        => /\ Answer.status = 400
           /\ applications' = applications
           /\ MapValues(applications', heap') = MapValues(applications, heap)
           /\ outbound' = outbound
      ]_vars

\* a submission with an empty id and a webhookUrl, with a record in the store
C6_Witness ==
    \E r \in Received :
        /\ IsSubmit(r) /\ requests[r].body.id = ""
        /\ requests[r].body.webhookUrl = "hook"
        /\ responses[r].status = 400
        /\ Len(applications) = 1

----------------------------------------------------------------------------
(* C7 *)

\* C7: a stored record has no status, reviewedAt or reviewedBy until an
\* update of its id succeeded.
C7_ReviewFieldsOnlyFromUpdate ==
    \A i \in 1..Len(applications) :
        LET application == heap[applications[i].ref] IN
        (\/ application.status # Undefined
         \/ application.reviewedAt # Undefined
         \/ application.reviewedBy # Undefined)
        => \E p \in Received :
              /\ IsPatch(p) /\ requests[p].param = applications[i].key
              /\ responses[p].status = 200

----------------------------------------------------------------------------
(* C8 *)

\* C8: a code exchange without a code answers 400 with an error and makes no
\* outbound call; with a code it makes at most the token request and then
\* the user request, the latter only after the former succeeded, and once a
\* call failed it answers 500 and makes no further call.
C8_AuthOutboundCalls ==
    \A r \in Received : IsAuth(r) =>
        LET calls == CallsOf(r) IN
        /\ requests[r].body.code \in {Undefined, ""} =>
              /\ calls = <<>>
              /\ responses[r].status = 400
              /\ "error" \in DOMAIN responses[r].body
        /\ Len(calls) <= 2
        /\ Len(calls) >= 1 => calls[1].url = "oauth2/token"
        /\ Len(calls) = 2 => calls[1].state = "ok" /\ calls[2].url = "users/@me"
        /\ SomeCall(r, "failed") =>
              /\ calls[Len(calls)].state = "failed"
              /\ responses[r].status = 500

\* one exchange failed at the user request while another failed at the token
\* request
C8_Witness ==
    \E r, q \in Received :
        /\ IsAuth(r) /\ Len(CallsOf(r)) = 2 /\ SomeCall(r, "failed")
        /\ IsAuth(q) /\ Len(CallsOf(q)) = 1 /\ SomeCall(q, "failed")

----------------------------------------------------------------------------
(* C9 *)

\* The store of section 4.2 with records as values: what the first n requests
\* leave in it when each put and each update happens at once and whole.
Put(store, body) ==
    IF \E i \in 1..Len(store) : store[i].id = body.id
    THEN [i \in 1..Len(store) |-> IF store[i].id = body.id THEN body ELSE store[i]]
    ELSE Append(store, body)

Update(store, id, patch, at) ==
    [i \in 1..Len(store) |->
        IF store[i].id = id
        THEN [store[i] EXCEPT !.status = patch.status, !.reviewedAt = ToString(at),
                              !.reviewedBy = patch.reviewedBy]
        ELSE store[i]]

RECURSIVE StoreAfter(_)
StoreAfter(n) ==
    IF n = 0 THEN <<>>
    ELSE LET store == StoreAfter(n - 1) IN
         IF HasId(n) THEN Put(store, requests[n].body)
         ELSE IF IsPatch(n) THEN Update(store, requests[n].param, requests[n].body, requests[n].at)
         ELSE store

\* C9: every GET returns the records as all puts and updates received before
\* it left them, each put and update whole and the last one of an id on top:
\* no record with a part of an update, none without an earlier write.
C9_ReadsSeeWholeWrites ==
    \A g \in Received :
        /\ IsGetAll(g) => responses[g].body.applications = StoreAfter(g - 1)
        /\ IsGetUser(g) =>
              responses[g].body.applications =
                  SelectSeq(StoreAfter(g - 1), LAMBDA a : a.userId = requests[g].param)

\* a GET after an update of a record whose submission still awaits its webhook
C9_Witness ==
    \E s, p, g \in Received :
        /\ s < p /\ p < g
        /\ HasWebhook(s) /\ pc[s] = "webhook"
        /\ IsPatch(p) /\ requests[p].param = requests[s].body.id
        /\ requests[p].body.status = "accepted"
        /\ IsGetAll(g)

----------------------------------------------------------------------------
(* C10 *)

\* C10: the application in the response of a successful submission is the
\* body that was submitted.
C10_ResponseIsSubmittedBody ==
    \A r \in Received :
        IsSubmit(r) /\ responses[r].status = 200
        => responses[r].body.application = requests[r].body

====
